---- MODULE Spec2Model ----
(***************************************************************************)
(* Memory Visualizer (assignment2.py): a one-shot command-line report of   *)
(* system or per-program memory use as text bar charts.                    *)
(*                                                                         *)
(* The module models                                                       *)
(*   - the text sources the program reads (/proc/meminfo, the output of    *)
(*     pidof, /proc/<pid>/smaps) as Python strings, and the parsing the    *)
(*     code does on them (startswith, split, int);                         *)
(*   - Python's float arithmetic as IEEE-754 binary64 with                 *)
(*     round-to-nearest-even, on bit sequences (TLC integers are 32 bit);  *)
(*   - byte counts as base-1024 digit sequences, so that counts of a PiB   *)
(*     and more exist in the model;                                        *)
(*   - main() as a state machine whose steps are its I/O operations, with  *)
(*     the processes of the machine exiting or growing between them.       *)
(***************************************************************************)
EXTENDS Integers, Sequences, FiniteSets, TLC

VARIABLES
    pc,             \* position of main(): "start", "avail", "branch", "sum", "report", "done"
    status,         \* "running", "ok" (main returned), "error" (uncaught exception)
    args,           \* argparse.Namespace: program, human_readable, length
    meminfo,        \* /proc/meminfo: the fields the kernel reports, in order
    pidof,          \* what `pidof <program>` does: [fails, pids]
    procs,          \* pid -> [alive, regions]: the processes and their mapped regions
    total_mem,      \* main's total_mem: None or <<KiB>>
    avail_mem,      \* main's avail_mem: None or <<KiB>>
    pids,           \* main's pids
    idx,            \* index into pids of the loop that is running
    total_prog_rss, \* main's total_prog_rss
    out,            \* standard output: the lines printed so far
    io,             \* every open of an external source so far, in order
    call,           \* a direct call of one function: its name and arguments
    ret             \* the result of that call

vars == <<pc, status, args, meminfo, pidof, procs, total_mem, avail_mem, pids,
          idx, total_prog_rss, out, io, call, ret>>

mainVars == <<pc, status, args, meminfo, pidof, procs, total_mem, avail_mem,
              pids, idx, total_prog_rss, out, io>>

-----------------------------------------------------------------------------
(* Python values *)

None == <<>>
Some(v) == <<v>>
Abs(n) == IF n < 0 THEN 0 - n ELSE n

RECURSIVE SumSeq(_)
SumSeq(s) == IF s = <<>> THEN 0 ELSE Head(s) + SumSeq(Tail(s))

(* str * int: a count below one gives the empty string *)
RECURSIVE Repeat(_, _)
Repeat(ch, n) ==
    IF n <= 0 THEN ""
    ELSE IF n = 1 THEN ch
    ELSE Repeat(ch, n \div 2) \o Repeat(ch, n - n \div 2)

(* str.startswith *)
StartsWith(line, prefix) ==
    /\ Len(line) >= Len(prefix)
    /\ SubSeq(line, 1, Len(prefix)) = prefix

IsSpace(c) == c \in {" ", "\t", "\n"}

SpaceAt(s, i) == IsSpace(SubSeq(s, i, i))

(* where the words of s start: a non-blank at the start or after a blank *)
WordStarts(s) ==
    {i \in 1..Len(s) : ~SpaceAt(s, i) /\ (i = 1 \/ SpaceAt(s, i - 1))}

(* the word of s starting at i runs up to the next blank or the end *)
WordAt(s, i) ==
    LET ends == {j \in i..Len(s) : j = Len(s) \/ SpaceAt(s, j + 1)}
        e    == CHOOSE j \in ends : \A k \in ends : j <= k
    IN  SubSeq(s, i, e)

(* str.split() with no separator: the maximal runs of non-whitespace *)
Split(s) ==
    LET starts == WordStarts(s)
        nth(k) == CHOOSE i \in starts : Cardinality({j \in starts : j < i}) = k - 1
    IN  [k \in 1..Cardinality(starts) |-> WordAt(s, nth(k))]

(* str.strip() *)
Strip(s) ==
    LET keep == {i \in 1..Len(s) : ~SpaceAt(s, i)}
    IN  IF keep = {} THEN ""
        ELSE SubSeq(s, CHOOSE i \in keep : \A k \in keep : i <= k,
                       CHOOSE i \in keep : \A k \in keep : i >= k)

DigitChars == <<"0", "1", "2", "3", "4", "5", "6", "7", "8", "9">>

DigitVal(c) == (CHOOSE d \in 1..10 : DigitChars[d] = c) - 1

(* int(str) of a decimal numeral *)
RECURSIVE ParseInt(_)
ParseInt(s) ==
    LET n == Len(s)
        h == n \div 2
    IN  IF n = 1 THEN DigitVal(s)
        ELSE ParseInt(SubSeq(s, 1, h)) * 10 ^ (n - h) + ParseInt(SubSeq(s, h + 1, n))

-----------------------------------------------------------------------------
(* Python floats: IEEE-754 binary64, round to nearest, ties to even.       *)
(* A float is [sgn, exp, man]: man is the significand, MantBits bits with  *)
(* the leading one first, and the value is sgn * 1.man[2..] * 2^exp.       *)
(* Zero has the empty significand.  The operands of the program are small  *)
(* integers (below 2^15), the significands are not: they are bit           *)
(* sequences, handled LimbBits bits at a time.                             *)

MantBits == 53

LimbBits == MantBits \div 4

FZero == [sgn |-> 1, exp |-> 0, man |-> <<>>]

RECURSIVE BitLen(_)
BitLen(n) == IF n = 0 THEN 0 ELSE 1 + BitLen(n \div 2)

(* the w low binary digits of n, highest first *)
FixedBits(n, w) == [i \in 1..w |-> (n \div 2 ^ (w - i)) % 2]

(* binary digits of a natural number, leading one first *)
BitsOfNat(n) == FixedBits(n, BitLen(n))

RECURSIVE NatOfBits(_)
NatOfBits(b) ==
    LET n == Len(b)
        h == n \div 2
    IN  IF n = 0 THEN 0
        ELSE IF n = 1 THEN b[1]
        ELSE NatOfBits(SubSeq(b, 1, h)) * 2 ^ (n - h) + NatOfBits(SubSeq(b, h + 1, n))

(* 2^i mod t *)
RECURSIVE PowMod2(_, _)
PowMod2(i, t) ==
    IF i = 0 THEN 1 % t
    ELSE LET h == PowMod2(i \div 2, t)
         IN  (((h * h) % t) * (IF i % 2 = 1 THEN 2 ELSE 1)) % t

(* long division of r by t, 0 <= r < t: the remainder after i binary       *)
(* digits of the quotient, and the i-th digit                              *)
RemAt(r, t, i) == (r * PowMod2(i, t)) % t

QuotBit(r, t, i) == IF 2 * RemAt(r, t, i - 1) >= t THEN 1 ELSE 0

(* how many digits into r/t its first one is, 0 < r < t *)
RECURSIVE ShiftCount(_, _)
ShiftCount(r, t) == IF 2 * r >= t THEN 1 ELSE 1 + ShiftCount(2 * r, t)

(* a bit sequence plus one: the carry out and the sum *)
IncBits(b) ==
    LET zeros == {i \in 1..Len(b) : b[i] = 0}
        j     == CHOOSE i \in zeros : \A k \in zeros : i >= k
    IN  IF zeros = {} THEN [c |-> 1, bits |-> [i \in 1..Len(b) |-> 0]]
        ELSE [c |-> 0,
              bits |-> [i \in 1..Len(b) |-> IF i < j THEN b[i]
                                            ELSE IF i = j THEN 1 ELSE 0]]

(* the float nearest to sgn * b1.b2 b3 ... * 2^exp, bits starting with a   *)
(* one, sticky saying that the digits beyond bits are not all zero         *)
RoundBits(sgn, exp, bits, sticky) ==
    LET n    == Len(bits)
        man  == IF n >= MantBits THEN SubSeq(bits, 1, MantBits)
                ELSE bits \o [i \in 1..(MantBits - n) |-> 0]
        rb   == IF n > MantBits THEN bits[MantBits + 1] ELSE 0
        rest == sticky \/ \E i \in (MantBits + 2)..n : bits[i] = 1
        up   == rb = 1 /\ (rest \/ man[MantBits] = 1)
        inc  == IncBits(man)
    IN  IF ~up THEN [sgn |-> sgn, exp |-> exp, man |-> man]
        ELSE IF inc.c = 1
        THEN [sgn |-> sgn, exp |-> exp + 1,
              man |-> <<1>> \o [i \in 1..(MantBits - 1) |-> 0]]
        ELSE [sgn |-> sgn, exp |-> exp, man |-> inc.bits]

(* int / int, t > 0: the correctly rounded quotient *)
TrueDiv(u, t) ==
    LET a    == Abs(u)
        sgn  == IF u < 0 THEN 0 - 1 ELSE 1
        ib   == BitsOfNat(a \div t)
        r    == a % t
        skip == IF ib # <<>> \/ r = 0 THEN 0 ELSE ShiftCount(r, t) - 1
        more == MantBits + 1 - Len(ib)
        bits == ib \o [i \in 1..more |-> QuotBit(r, t, skip + i)]
        exp  == IF ib # <<>> THEN Len(ib) - 1 ELSE 0 - (skip + 1)
    IN  IF a = 0 THEN FZero
        ELSE RoundBits(sgn, exp, bits, RemAt(r, t, skip + more) # 0)

(* a bit sequence times a natural number below 2^16, a limb at a time *)
RECURSIVE MulCarry(_, _, _)
MulCarry(b, m, carry) ==
    LET n == Len(b)
        v == NatOfBits(SubSeq(b, n - LimbBits + 1, n)) * m + carry
    IN  IF n <= LimbBits THEN BitsOfNat(NatOfBits(b) * m + carry)
        ELSE MulCarry(SubSeq(b, 1, n - LimbBits), m, v \div 2 ^ LimbBits)
                 \o FixedBits(v % 2 ^ LimbBits, LimbBits)

(* float * int, 0 <= m: the int converts exactly, the product is rounded *)
FMulInt(x, m) ==
    IF x.man = <<>> \/ m = 0 THEN FZero
    ELSE LET p == MulCarry(x.man, m, 0)
         IN  RoundBits(x.sgn, x.exp + (Len(p) - MantBits), p, FALSE)

(* int(float): truncation towards zero *)
Trunc(x) ==
    IF x.man = <<>> \/ x.exp < 0 THEN 0
    ELSE x.sgn * NatOfBits(SubSeq(x.man, 1, x.exp + 1))

(* format(float, ".0f"): the nearest integer, ties to even; a negative     *)
(* value that rounds to zero prints as "-0"                                *)
Format0f(x) ==
    LET ip   == Abs(Trunc(x))
        frac == IF x.man = <<>> \/ x.exp < 0 - 1 THEN <<>>
                ELSE IF x.exp = 0 - 1 THEN x.man
                ELSE SubSeq(x.man, x.exp + 2, MantBits)
        half == frac # <<>> /\ frac[1] = 1
        more == \E i \in 2..Len(frac) : frac[i] = 1
        up   == half /\ (more \/ ip % 2 = 1)
    IN  (IF x.sgn < 0 THEN "-" ELSE "") \o ToString(IF up THEN ip + 1 ELSE ip)

-----------------------------------------------------------------------------
(* percent_to_graph(percentage, bar_length) *)

FilledLength(percentage, bar_length) == Trunc(FMulInt(percentage, bar_length))

(* the bar with the padding not reduced by the filled part *)
percent_to_graph_pad(percentage, bar_length) ==
    LET filled_length == FilledLength(percentage, bar_length)
    IN  Repeat("#", filled_length) \o Repeat(" ", bar_length)

percent_to_graph(percentage, bar_length) ==
    LET filled_length == FilledLength(percentage, bar_length)
    IN  Repeat("#", filled_length) \o Repeat(" ", bar_length - filled_length)

-----------------------------------------------------------------------------
(* bytes_to_human_readable(bytes).  A byte count is [neg, dig]: its sign   *)
(* and its base-1024 digits, lowest first, the highest not zero.  Up to    *)
(* 2^53 the float the loop divides is exact, and a division by 1024.0 only *)
(* moves a digit below the point; beyond, the loop has run out of units.   *)

Kibi == 1024

Units == <<"B", "KiB", "MiB", "GiB", "TiB">>

RECURSIVE DigitsOf(_)
DigitsOf(n) == IF n = 0 THEN <<>> ELSE <<n % Kibi>> \o DigitsOf(n \div Kibi)

RECURSIVE NatOfDigits(_)
NatOfDigits(d) == IF d = <<>> THEN 0 ELSE Head(d) + Kibi * NatOfDigits(Tail(d))

(* kib * 1024, as main() converts KiB to bytes *)
KiBToBytes(kib) ==
    [neg |-> kib < 0,
     dig |-> IF kib = 0 THEN <<>> ELSE <<0>> \o DigitsOf(Abs(kib))]

(* digits times m plus a carry, lowest first: the digits and the carry out *)
RECURSIVE MulDigits(_, _, _)
MulDigits(d, m, c) ==
    IF d = <<>> THEN [dig |-> <<>>, c |-> c]
    ELSE LET v == Head(d) * m + c
             r == MulDigits(Tail(d), m, v \div Kibi)
         IN  [dig |-> <<v % Kibi>> \o r.dig, c |-> r.c]

TwoDigits(h) == ToString(h \div 10) \o ToString(h % 10)

(* format(value, ".2f") of the value the loop holds at unit k: the byte    *)
(* count over 1024^(k-1), rounded to hundredths, ties to even              *)
Format2f(b, k) ==
    LET ip   == IF Len(b.dig) >= k THEN b.dig[k] ELSE 0
        frac == SubSeq(b.dig, 1, k - 1)
        prod == MulDigits(frac, 100, 0)
        n    == Len(prod.dig)
        low  == \E i \in 1..(n - 1) : prod.dig[i] # 0
        over == n > 0 /\ (prod.dig[n] > Kibi \div 2 \/ (prod.dig[n] = Kibi \div 2 /\ low))
        tie  == n > 0 /\ prod.dig[n] = Kibi \div 2 /\ ~low
        h    == IF over \/ (tie /\ prod.c % 2 = 1) THEN prod.c + 1 ELSE prod.c
    IN  IF b.neg THEN "-" \o ToString(NatOfDigits(b.dig)) \o ".00"
        ELSE IF h = 100 THEN ToString(ip + 1) \o ".00"
        ELSE ToString(ip) \o "." \o TwoDigits(h)

(* the for loop from its k-th unit on; falling out of it returns None *)
RECURSIVE HumanFrom(_, _)
HumanFrom(b, k) ==
    IF k > Len(Units) THEN None
    ELSE IF b.neg \/ Len(b.dig) <= k THEN Some(Format2f(b, k) \o " " \o Units[k])
    ELSE HumanFrom(b, k + 1)

bytes_to_human_readable(b) == HumanFrom(b, 1)

(* str() of a value that is a string or None, as an f-string prints it *)
Str(v) == IF v = None THEN "None" ELSE v[1]

-----------------------------------------------------------------------------
(* The text sources, as the kernel and pidof write them *)

(* a line of /proc/meminfo *)
MemInfoLine(fld) == fld.name \o ":   " \o ToString(fld.value) \o " kB\n"

MemInfoText(src) == [i \in 1..Len(src) |-> MemInfoLine(src[i])]

(* the lines of one mapped region in /proc/<pid>/smaps *)
RegionText(rg) ==
    << "00400000-0040b000 r-xp 00000000 08:01 1234 /usr/bin/prog\n",
       "Size:   " \o ToString(rg.size) \o " kB\n",
       "Rss:   " \o ToString(rg.rss) \o " kB\n",
       "Pss:   " \o ToString(rg.rss) \o " kB\n" >>

RECURSIVE SmapsText(_)
SmapsText(regions) ==
    IF regions = <<>> THEN <<>>
    ELSE RegionText(Head(regions)) \o SmapsText(Tail(regions))

SmapsPath(pid) == "/proc/" \o pid \o "/smaps"

(* what pidof prints: the pids of the running processes of the program *)
RECURSIVE PidofText(_, _)
PidofText(names, ps) ==
    IF names = <<>> THEN "\n"
    ELSE IF ps[Head(names)].alive
    THEN Head(names) \o (IF \E i \in 2..Len(names) : ps[names[i]].alive THEN " " ELSE "")
             \o PidofText(Tail(names), ps)
    ELSE PidofText(Tail(names), ps)

-----------------------------------------------------------------------------
(* get_sys_mem(): the value of the first line that starts with MemTotal;   *)
(* a file without one ends the loop, and the function returns None         *)
get_sys_mem(f) ==
    LET hits == {i \in 1..Len(f) : StartsWith(f[i], "MemTotal")}
        line == f[CHOOSE i \in hits : \A k \in hits : i <= k]
    IN  IF hits = {} THEN None ELSE Some(ParseInt(Split(line)[2]))

(* the loop of get_avail_mem over the lines from the i-th on *)
RECURSIVE ScanMemInfo(_, _, _)
ScanMemInfo(f, i, st) ==
    IF i > Len(f) THEN st
    ELSE LET line == f[i]
             v    == ParseInt(Split(line)[2])
         IN  ScanMemInfo(f, i + 1,
                 IF StartsWith(line, "MemFree") THEN [st EXCEPT !.mem_free = v]
                 ELSE IF StartsWith(line, "SwapFree") THEN [st EXCEPT !.swap_free = v]
                 ELSE IF StartsWith(line, "MemAvailable") THEN [st EXCEPT !.mem_available = v]
                 ELSE st)

(* the fallback without the swap *)
AvailOfNoSwap(st) ==
    IF st.mem_available = 0 THEN st.mem_free ELSE st.mem_available

(* the fallback of get_avail_mem for a missing or zero MemAvailable *)
AvailOf(st) ==
    IF st.mem_available = 0 THEN st.mem_free + st.swap_free ELSE st.mem_available

get_avail_mem(f) ==
    AvailOf(ScanMemInfo(f, 1, [mem_free |-> 0, swap_free |-> 0, mem_available |-> 0]))

(* a printed line: who printed it, which line of the report it is, the pid *)
(* and the KiB value it shows, its bar and size fields, and its text       *)
Line(by, kind, pid, val, bar, size, text) ==
    [by |-> by, kind |-> kind, pid |-> pid, val |-> val, bar |-> bar,
     size |-> size, text |-> text]

(* an open of an external source, and what the program got from it *)
Read(src, got) == [src |-> src, got |-> got]

(* the loop keeping the last Rss value instead of the sum *)
RECURSIVE ScanSmapsLast(_, _, _)
ScanSmapsLast(f, i, rss_total) ==
    IF i > Len(f) THEN rss_total
    ELSE ScanSmapsLast(f, i + 1,
             IF StartsWith(f[i], "Rss") THEN ParseInt(Split(f[i])[2])
             ELSE rss_total)

(* the loop of rss_mem_of_pid over the lines from the i-th on *)
RECURSIVE ScanSmaps(_, _, _)
ScanSmaps(f, i, rss_total) ==
    IF i > Len(f) THEN rss_total
    ELSE ScanSmaps(f, i + 1,
             IF StartsWith(f[i], "Rss") THEN rss_total + ParseInt(Split(f[i])[2])
             ELSE rss_total)

(* rss_mem_of_pid(pid) on the processes ps: the value returned, what the   *)
(* file gave (None when the open raised FileNotFoundError) and what is     *)
(* printed                                                                 *)
rss_mem_of_pid(pid, ps) ==
    IF ps[pid].alive
    THEN LET rss_total == ScanSmaps(SmapsText(ps[pid].regions), 1, 0)
         IN  [rss |-> rss_total, got |-> Some(rss_total), printed |-> <<>>]
    ELSE [rss |-> 0, got |-> None,
          printed |-> <<Line("rss_mem_of_pid", "notice", pid, 0, "", "",
                             "Process " \o pid \o " not found.")>>]

-----------------------------------------------------------------------------
(* The runs of the model *)

MaxProcs == 2
MaxRegions == 2

PidNames == <<"812", "455", "77">>

Pids == {PidNames[i] : i \in 1..MaxProcs}

Program == "sshd"

Lengths == {0, 10, 22}

DefaultLength == 20

Field(name, v) == IF v = None THEN <<>> ELSE <<[name |-> name, value |-> v[1]]>>

(* /proc/meminfo in the kernel's order, each field present or not *)
MemInfoOf(t, f, a, s) ==
    Field("MemTotal", t) \o Field("MemFree", f) \o Field("MemAvailable", a)
        \o Field("SwapTotal", Some(40)) \o Field("SwapFree", s)

(* the sources of the system runs: MemTotal missing, zero or positive, and  *)
(* with a positive MemTotal no MemAvailable above it                       *)
SysMemInfos ==
    {MemInfoOf(q[1], q[2], q[3], q[4]) :
        q \in {r \in {None, Some(0), Some(22), Some(1000)} \X {None, Some(15)}
                       \X {None, Some(0), Some(7), Some(250)} \X {None, Some(30)} :
                  (r[1] # None /\ r[3] # None /\ r[1][1] > 0) => r[3][1] <= r[1][1]}}

ProgMemInfos == {MemInfoOf(Some(1000), Some(15), Some(250), Some(30))}

InitRegions ==
    { <<[size |-> 132, rss |-> 100], [size |-> 400, rss |-> 250]>>,
      <<[size |-> 8, rss |-> 4]>> }

GrownRegion == [size |-> 16, rss |-> 8]

NoProcs == [p \in Pids |-> [alive |-> FALSE, regions |-> <<>>]]

Init ==
    /\ pc = "start"
    /\ status = "running"
    /\ \/ /\ args \in [program : {None}, human_readable : BOOLEAN, length : Lengths]
          /\ meminfo \in SysMemInfos
          /\ pidof = [fails |-> FALSE]
          /\ procs = NoProcs
       \/ /\ args \in [program : {Some(Program)}, human_readable : BOOLEAN,
                       length : {DefaultLength}]
          /\ meminfo \in ProgMemInfos
          /\ \/ /\ pidof = [fails |-> TRUE]
                /\ procs = NoProcs
             \/ /\ pidof = [fails |-> FALSE]
                /\ procs \in [Pids -> [alive : BOOLEAN, regions : InitRegions]]
    /\ total_mem = None
    /\ avail_mem = None
    /\ pids = <<>>
    /\ idx = 0
    /\ total_prog_rss = 0
    /\ out = <<>>
    /\ io = <<>>
    /\ call = [fn |-> "main"]
    /\ ret = None

-----------------------------------------------------------------------------
(* main(), lines 156-172: what it computes from total_mem and avail_mem *)

used_mem == total_mem[1] - avail_mem[1]

percent_used == TrueDiv(used_mem, total_mem[1])

(* a size in KiB as main() prints it, per args.human_readable *)
Size(kib) ==
    IF args.human_readable THEN Str(bytes_to_human_readable(KiBToBytes(kib)))
    ELSE ToString(kib) \o " KiB"

MemoryLine ==
    LET bar  == percent_to_graph(percent_used, args.length)
        size == Size(used_mem) \o "/" \o Size(total_mem[1])
    IN  Line("main", "memory", "", used_mem, bar, size,
             "Memory         [" \o bar \o " | " \o Format0f(FMulInt(percent_used, 100))
                 \o "%] " \o size)

(* a line of the program report: the summary (label the program) or a pid's *)
RssLine(kind, label, pid, rss) ==
    LET bar  == percent_to_graph(TrueDiv(rss, total_mem[1]), args.length)
        size == Size(rss) \o "/" \o Size(total_mem[1])
    IN  Line("main", kind, pid, rss, bar, size,
             label \o (IF kind = "summary" THEN "        [" ELSE "         [")
                 \o bar \o "] " \o size)

(* total_mem = get_sys_mem() *)
GetSysMem ==
    /\ pc = "start"
    /\ total_mem' = get_sys_mem(MemInfoText(meminfo))
    /\ io' = Append(io, Read("/proc/meminfo", total_mem'))
    /\ pc' = "avail"
    /\ UNCHANGED <<status, args, meminfo, pidof, procs, avail_mem, pids, idx,
                   total_prog_rss, out, call, ret>>

(* avail_mem = get_avail_mem(), then used_mem and percent_used: a           *)
(* total_mem of None raises TypeError, one of 0 ZeroDivisionError          *)
GetAvailMem ==
    /\ pc = "avail"
    /\ avail_mem' = Some(get_avail_mem(MemInfoText(meminfo)))
    /\ io' = Append(io, Read("/proc/meminfo", avail_mem'))
    /\ IF total_mem = None \/ total_mem = Some(0)
       THEN pc' = "done" /\ status' = "error"
       ELSE pc' = "branch" /\ UNCHANGED status
    /\ UNCHANGED <<args, meminfo, pidof, procs, total_mem, pids, idx,
                   total_prog_rss, out, call, ret>>

(* no program given: the system report *)
PrintMemory ==
    /\ pc = "branch"
    /\ args.program = None
    /\ out' = Append(out, MemoryLine)
    /\ pc' = "done"
    /\ status' = "ok"
    /\ UNCHANGED <<args, meminfo, pidof, procs, total_mem, avail_mem, pids, idx,
                   total_prog_rss, io, call, ret>>

(* pids_of_prog(program): what it returns and prints *)
pids_of_prog(program) ==
    LET pid_list == Strip(PidofText(SubSeq(PidNames, 1, MaxProcs), procs))
    IN  IF pidof.fails
        THEN [pids |-> <<>>,
              printed |-> <<Line("pids_of_prog", "warning", "", 0, "", "",
                                 "Error finding processes for " \o program
                                     \o ": [Errno 12] Cannot allocate memory")>>]
        ELSE [pids |-> IF pid_list # "" THEN Split(pid_list) ELSE <<>>,
              printed |-> <<>>]

(* main() without the return after "not found": both loops run over no    *)
(* pid and the summary line is printed                                     *)
ResolvedNoReturn(r) ==
    IF r.pids = <<>>
    THEN /\ out' = out \o r.printed
                \o <<Line("main", "notfound", "", 0, "", "", Program \o " not found."),
                     RssLine("summary", Program, "", 0)>>
         /\ pc' = "done"
         /\ status' = "ok"
         /\ UNCHANGED idx
    ELSE /\ out' = out \o r.printed
         /\ pc' = "sum"
         /\ idx' = 1
         /\ UNCHANGED status

(* main() after pids_of_prog returned r: not found and return, or on to    *)
(* the first loop                                                          *)
Resolved(r) ==
    IF r.pids = <<>>
    THEN /\ out' = out \o r.printed
                \o <<Line("main", "notfound", "", 0, "", "", Program \o " not found.")>>
         /\ pc' = "done"
         /\ status' = "ok"
         /\ UNCHANGED idx
    ELSE /\ out' = out \o r.printed
         /\ pc' = "sum"
         /\ idx' = 1
         /\ UNCHANGED status

PidsOfProg ==
    /\ pc = "branch"
    /\ args.program # None
    /\ LET r == pids_of_prog(args.program[1])
       IN  /\ pids' = r.pids
           /\ Resolved(r)
    /\ io' = Append(io, Read("pidof", pids'))
    /\ UNCHANGED <<args, meminfo, pidof, procs, total_mem, avail_mem,
                   total_prog_rss, call, ret>>

(* one turn of the first loop, and after its last turn the summary line *)
SumRss ==
    /\ pc = "sum"
    /\ LET pid == pids[idx]
           r   == rss_mem_of_pid(pid, procs)
           sum == total_prog_rss + r.rss
       IN  /\ io' = Append(io, Read(SmapsPath(pid), r.got))
           /\ total_prog_rss' = sum
           /\ IF idx < Len(pids)
              THEN /\ out' = out \o r.printed
                   /\ idx' = idx + 1
                   /\ pc' = "sum"
              ELSE /\ out' = out \o r.printed
                          \o <<RssLine("summary", args.program[1], "", sum)>>
                   /\ idx' = 1
                   /\ pc' = "report"
    /\ UNCHANGED <<status, args, meminfo, pidof, procs, total_mem, avail_mem,
                   pids, call, ret>>

(* one turn of the second loop: the pid's line *)
ReportPid ==
    /\ pc = "report"
    /\ LET pid == pids[idx]
           r   == rss_mem_of_pid(pid, procs)
       IN  /\ io' = Append(io, Read(SmapsPath(pid), r.got))
           /\ out' = out \o r.printed \o <<RssLine("pid", pid, pid, r.rss)>>
    /\ IF idx < Len(pids)
       THEN idx' = idx + 1 /\ UNCHANGED <<pc, status>>
       ELSE pc' = "done" /\ status' = "ok" /\ UNCHANGED idx
    /\ UNCHANGED <<args, meminfo, pidof, procs, total_mem, avail_mem, pids,
                   total_prog_rss, call, ret>>

(* The machine meanwhile: a process enumerated by pidof exits, and its     *)
(* /proc/<pid>/smaps is gone                                               *)
ProcExit(p) ==
    /\ pc \in {"sum", "report"}
    /\ procs[p].alive
    /\ procs' = [procs EXCEPT ![p].alive = FALSE]
    /\ UNCHANGED <<pc, status, args, meminfo, pidof, total_mem, avail_mem, pids,
                   idx, total_prog_rss, out, io, call, ret>>

(* ... or maps another region *)
ProcGrow(p) ==
    /\ pc \in {"sum", "report"}
    /\ procs[p].alive
    /\ Len(procs[p].regions) < MaxRegions
    /\ procs' = [procs EXCEPT ![p].regions = Append(@, GrownRegion)]
    /\ UNCHANGED <<pc, status, args, meminfo, pidof, total_mem, avail_mem, pids,
                   idx, total_prog_rss, out, io, call, ret>>

Next ==
    \/ GetSysMem
    \/ GetAvailMem
    \/ PrintMemory
    \/ PidsOfProg
    \/ SumRss
    \/ ReportPid
    \/ \E p \in Pids : ProcExit(p)
    \/ \E p \in Pids : ProcGrow(p)

Spec == Init /\ [][Next]_vars

-----------------------------------------------------------------------------
(* Direct calls of one function on inputs from bounded sets: main() does   *)
(* not run, call holds the function's arguments and ret what it returned   *)
(* (None before the call, <<value>> after it)                              *)

Idle ==
    /\ pc = "call"
    /\ status = "running"
    /\ args = [program |-> None, human_readable |-> FALSE, length |-> DefaultLength]
    /\ meminfo = <<>>
    /\ pidof = [fails |-> FALSE]
    /\ total_mem = None
    /\ avail_mem = None
    /\ pids = <<>>
    /\ idx = 0
    /\ total_prog_rss = 0
    /\ out = <<>>
    /\ io = <<>>
    /\ ret = None

Injective(f) == \A i, j \in DOMAIN f : f[i] = f[j] => i = j

(* the fields of a memory-info source in every order *)
Orders(flds) ==
    {f \in [1..Cardinality(flds) -> flds] : Injective(f)}

AvailSources ==
    UNION {Orders({[name |-> "MemTotal", value |-> 8000000]}
                  \cup {[name |-> "MemFree", value |-> v[1]] : v \in {f} \ {None}}
                  \cup {[name |-> "MemAvailable", value |-> v[1]] : v \in {a} \ {None}}
                  \cup {[name |-> "SwapFree", value |-> v[1]] : v \in {w} \ {None}}) :
           f \in {None, Some(0), Some(500000)},
           a \in {None, Some(0), Some(3000000)},
           w \in {None, Some(0), Some(7)}}

InitAvail ==
    /\ Idle
    /\ procs = NoProcs
    /\ call \in [fn : {"get_avail_mem"}, src : AvailSources]

CallGetAvailMem ==
    /\ call.fn = "get_avail_mem"
    /\ ret = None
    /\ ret' = Some(get_avail_mem(MemInfoText(call.src)))
    /\ UNCHANGED <<mainVars, call>>

SpecAvail == InitAvail /\ [][CallGetAvailMem]_vars

(* percent_to_graph on the floats num/den of [0,1] *)
MaxDen == 22
MaxBar == 22

InitBar ==
    /\ Idle
    /\ procs = NoProcs
    /\ call \in {[fn |-> "percent_to_graph", num |-> n, den |-> d, length |-> l] :
                    n \in 0..MaxDen, d \in 1..MaxDen, l \in 0..MaxBar}
    /\ call.num <= call.den

CallPercentToGraph ==
    /\ call.fn = "percent_to_graph"
    /\ ret = None
    /\ ret' = Some(percent_to_graph(TrueDiv(call.num, call.den), call.length))
    /\ UNCHANGED <<mainVars, call>>

SpecBar == InitBar /\ [][CallPercentToGraph]_vars

(* bytes_to_human_readable on the byte counts of up to MaxDigits digits *)
MaxDigits == 6

DigitChoices == {0, 1, 128, 512, Kibi - 1}

ByteCounts ==
    UNION {{d \in [1..n -> DigitChoices] : n > 0 => d[n] # 0} : n \in 0..MaxDigits}

InitHuman ==
    /\ Idle
    /\ procs = NoProcs
    /\ call \in {[fn |-> "bytes_to_human_readable", bytes |-> [neg |-> FALSE, dig |-> d]] :
                    d \in ByteCounts}

CallBytesToHumanReadable ==
    /\ call.fn = "bytes_to_human_readable"
    /\ ret = None
    /\ ret' = Some(bytes_to_human_readable(call.bytes))
    /\ UNCHANGED <<mainVars, call>>

SpecHuman == InitHuman /\ [][CallBytesToHumanReadable]_vars

(* rss_mem_of_pid on a process of up to MaxRegions regions, or none *)
Regions == [size : {132, 400}, rss : {0, 4, 100, 250}]

RegionSeqs == UNION {[1..n -> Regions] : n \in 0..MaxRegions}

InitRss ==
    /\ Idle
    /\ call = [fn |-> "rss_mem_of_pid", pid |-> PidNames[1]]
    /\ \E a \in BOOLEAN, rs \in RegionSeqs :
          procs = [NoProcs EXCEPT ![PidNames[1]] = [alive |-> a, regions |-> rs]]

CallRssMemOfPid ==
    /\ call.fn = "rss_mem_of_pid"
    /\ ret = None
    /\ LET r == rss_mem_of_pid(call.pid, procs)
       IN  /\ ret' = Some(r.rss)
           /\ out' = out \o r.printed
           /\ io' = Append(io, Read(SmapsPath(call.pid), r.got))
    /\ UNCHANGED <<pc, status, args, meminfo, pidof, procs, total_mem, avail_mem,
                   pids, idx, total_prog_rss, call>>

SpecRss == InitRss /\ [][CallRssMemOfPid]_vars

-----------------------------------------------------------------------------
(* What the claims speak of *)

Returned == ret # None

Result == ret[1]

IsProgramRun == args.program # None

(* the lines main() itself printed, in order *)
MainLines == SelectSeq(out, LAMBDA l : l.by = "main")

LinesOfKind(kind) == SelectSeq(out, LAMBDA l : l.kind = kind)

(* the reads of one source, in order *)
ReadsOf(src) == SelectSeq(io, LAMBDA r : r.src = src)

SmapsReads == SelectSeq(io, LAMBDA r : r.src \notin {"/proc/meminfo", "pidof"})

Resolver == ReadsOf("pidof")

CountOf(ch, str) == Cardinality({i \in 1..Len(str) : SubSeq(str, i, i) = ch})

(* the string is k times '#' and then spaces up to length l *)
IsBar(str, k, l) ==
    /\ Len(str) = l
    /\ \A i \in 1..l : SubSeq(str, i, i) = (IF i <= k THEN "#" ELSE " ")

(* k <= x for a float x >= 0 and a natural number k: by the exponents, and *)
(* between equal exponents by the first digit that differs                 *)
NatLeqFloat(k, x) ==
    LET kb  == BitsOfNat(k)
        pad == kb \o [i \in 1..(MantBits - Len(kb)) |-> 0]
    IN  \/ k = 0
        \/ /\ x.man # <<>>
           /\ \/ x.exp > Len(kb) - 1
              \/ /\ x.exp = Len(kb) - 1
                 /\ \A i \in 1..MantBits :
                       x.man[i] < pad[i] => \E j \in 1..(i - 1) : x.man[j] > pad[j]

(* floor(x) = k, for a float x >= 0 *)
IsFloor(k, x) == NatLeqFloat(k, x) /\ ~NatLeqFloat(k + 1, x)

Has(src, name) == \E i \in 1..Len(src) : src[i].name = name

(* the value of a field of a memory-info source, 0 when it has no such line *)
ValueOf(src, name) ==
    IF Has(src, name) THEN (CHOOSE fld \in {src[i] : i \in 1..Len(src)} : fld.name = name).value
    ELSE 0

-----------------------------------------------------------------------------
(* C1: in a program run with pids resolved, whichever of the processes     *)
(* vanish after the enumeration, the run ends normally, every vanished     *)
(* process contributes 0 KiB to the total and has its "Process <pid> not   *)
(* found." notice printed, and main prints the summary line and then one   *)
(* line per resolved pid, in the resolver's order.  A process has vanished *)
(* when a read of its smaps found no file.                                 *)
Vanished(pid) == \E i \in 1..Len(io) : io[i].src = SmapsPath(pid) /\ io[i].got = None

VanishedContributeNothing ==
    (pc = "done" /\ IsProgramRun /\ pids # <<>>) =>
        /\ status = "ok"
        /\ \A i \in 1..Len(pids) :
              Vanished(pids[i]) =>
                  /\ \A j \in 1..Len(io) :
                        io[j].src = SmapsPath(pids[i]) => io[j].got = None
                  /\ \E j \in 1..Len(out) :
                        out[j].kind = "notice" /\ out[j].pid = pids[i]
        /\ Len(MainLines) = 1 + Len(pids)
        /\ MainLines[1].kind = "summary"
        /\ \A i \in 1..Len(pids) :
              MainLines[1 + i].kind = "pid" /\ MainLines[1 + i].pid = pids[i]

(* C2: every external source is opened exactly once in a run that ends     *)
(* normally (the resolver at most once), and never more than once before   *)
ReadOnce ==
    /\ Len(ReadsOf("/proc/meminfo")) <= 1
    /\ Len(Resolver) <= 1
    /\ \A i \in 1..Len(pids) : Len(ReadsOf(SmapsPath(pids[i]))) <= 1
    /\ status = "ok" =>
          /\ Len(ReadsOf("/proc/meminfo")) = 1
          /\ pids # <<>> => \A i \in 1..Len(pids) : Len(ReadsOf(SmapsPath(pids[i]))) = 1

(* C3: get_avail_mem returns the MemAvailable value when the source has a  *)
(* MemAvailable line with a non-zero value, whatever the other lines and   *)
(* the order, and MemFree + SwapFree (0 for a missing line) when it has no *)
(* MemAvailable line or one that reads zero                                *)
AvailableOrFallback ==
    Returned =>
        IF Has(call.src, "MemAvailable") /\ ValueOf(call.src, "MemAvailable") # 0
        THEN Result = ValueOf(call.src, "MemAvailable")
        ELSE Result = ValueOf(call.src, "MemFree") + ValueOf(call.src, "SwapFree")

(* the fallback taken on MemTotal=8000000, MemFree=500000, SwapFree=0: 500000 *)
AvailableFallbackTaken ==
    /\ Returned
    /\ ~Has(call.src, "MemAvailable")
    /\ ValueOf(call.src, "MemFree") = 500000
    /\ Has(call.src, "SwapFree")
    /\ Result = 500000

(* C4: with MemTotal > 0 (and no negative field), the used fraction main   *)
(* computes is not negative, the fallback included, and is within [0,1]    *)
(* when the available value is within [0, total]                           *)
UsedFractionNotNegative ==
    (total_mem # None /\ avail_mem # None /\ total_mem[1] > 0) =>
        /\ percent_used.sgn = 1
        /\ (0 <= avail_mem[1] /\ avail_mem[1] <= total_mem[1]) =>
              /\ percent_used.sgn = 1
              /\ ~NatLeqFloat(2, percent_used)
              /\ NatLeqFloat(1, percent_used) => percent_used = TrueDiv(1, 1)

(* C5: when the resolver has returned no pid, main prints exactly the line *)
(* "<name> not found." and stops: it returned normally, no smaps was read, *)
(* and it printed no other line (the resolver's own warning, when the      *)
(* lookup failed, is the only other output)                                *)
NotFoundStops ==
    (Resolver # <<>> /\ pids = <<>>) =>
        /\ pc = "done"
        /\ status = "ok"
        /\ Len(MainLines) = 1
        /\ MainLines[1].text = Program \o " not found."
        /\ SmapsReads = <<>>
        /\ LinesOfKind("summary") = <<>> /\ LinesOfKind("pid") = <<>>
        /\ out = (IF pidof.fails THEN LinesOfKind("warning") ELSE <<>>) \o MainLines
        /\ Len(LinesOfKind("warning")) = (IF pidof.fails THEN 1 ELSE 0)

(* not found although the lookup itself worked: the processes are gone *)
NotFoundReached ==
    /\ Resolver # <<>>
    /\ pids = <<>>
    /\ ~pidof.fails
    /\ out # <<>>

(* C6: for a float f of [0,1] and a length L >= 0, percent_to_graph(f, L)  *)
(* is L characters: floor(f*L) times '#', then spaces; all spaces for      *)
(* f = 0, all '#' for f = 1.  f*L is the product as Python computes it.    *)
BarIsFloorOfProduct ==
    Returned =>
        /\ Len(Result) = call.length
        /\ \E k \in 0..call.length :
              /\ IsFloor(k, FMulInt(TrueDiv(call.num, call.den), call.length))
              /\ IsBar(Result, k, call.length)
        /\ call.num = 0 => IsBar(Result, 0, call.length)
        /\ call.num = call.den => IsBar(Result, call.length, call.length)

(* a bar part filled, part blank: 3/4 of 10 gives 7 '#' and 3 spaces *)
BarPartFilled ==
    /\ Returned
    /\ call.num = 3 /\ call.den = 4 /\ call.length = 10
    /\ Result = "#######   "

(* C7: for every byte count >= 0, bytes_to_human_readable returns a string: *)
(* the count over 1024^k to two decimals, a space and the k-th of the five *)
(* units, k the least with the count over 1024^k below 1024                *)
LeastUnit(b) == IF b.dig = <<>> THEN 1 ELSE Len(b.dig)

HumanReadableIsString ==
    Returned =>
        /\ Result # None
        /\ LeastUnit(call.bytes) <= Len(Units)
        /\ Result[1] = Format2f(call.bytes, LeastUnit(call.bytes)) \o " "
                           \o Units[LeastUnit(call.bytes)]
        /\ call.bytes.dig = <<>> => Result[1] = "0.00 B"
        /\ call.bytes.dig = <<0, 1>> => Result[1] = "1.00 KiB"
        /\ call.bytes.dig = <<512, 1>> => Result[1] = "1.50 KiB"
        /\ call.bytes.dig = <<0, 0, 0, 1>> => Result[1] = "1.00 GiB"

(* C8: for a smaps that exists, rss_mem_of_pid returns the sum of the Rss  *)
(* values of all its regions, and nothing of its other lines: 350 for      *)
(* regions of 100 and 250, 0 for no region                                 *)
RssIsSumOfRegions ==
    (Returned /\ procs[call.pid].alive) =>
        LET regions == procs[call.pid].regions
        IN  /\ Result = SumSeq([i \in 1..Len(regions) |-> regions[i].rss])
            /\ regions = <<>> => Result = 0
            /\ (Len(regions) = 2 /\ regions[1].rss = 100 /\ regions[2].rss = 250)
                   => Result = 350

(* two regions of Rss 100 and 250 read as 350 *)
RssOfTwoRegions ==
    /\ Returned
    /\ procs[call.pid].alive
    /\ Len(procs[call.pid].regions) = 2
    /\ procs[call.pid].regions[1].rss = 100
    /\ procs[call.pid].regions[2].rss = 250
    /\ Result = 350

(* C9: with no program given and MemTotal > 0, main prints exactly one     *)
(* line; its bar has floor((total - available) * length / total) '#' out   *)
(* of length characters, and without -H its size field is                  *)
(* "<total - available> KiB/<total> KiB".  Stated for the runs with        *)
(* 0 <= available <= total, where the negative fraction of C4 plays no     *)
(* part.                                                                   *)
SystemReportBar ==
    (status = "ok" /\ ~IsProgramRun /\ 0 <= avail_mem[1] /\ avail_mem[1] <= total_mem[1]) =>
        /\ Len(out) = 1
        /\ Len(out[1].bar) = args.length
        /\ CountOf("#", out[1].bar) = (used_mem * args.length) \div total_mem[1]
        /\ ~args.human_readable =>
              out[1].size = ToString(used_mem) \o " KiB/" \o ToString(total_mem[1]) \o " KiB"
        /\ (total_mem[1] = 1000 /\ avail_mem[1] = 250 /\ args.length = 10
                /\ ~args.human_readable) =>
              /\ CountOf("#", out[1].bar) = 7
              /\ out[1].size = "750 KiB/1000 KiB"

(* C10: in a program run that printed its report, the total of the summary *)
(* line is the sum of the values of the per-process lines                  *)
SummaryIsSumOfLines ==
    (status = "ok" /\ IsProgramRun /\ pids # <<>>) =>
        LET lines == LinesOfKind("pid")
        IN  LinesOfKind("summary")[1].val = SumSeq([i \in 1..Len(lines) |-> lines[i].val])

====
